---------------------------- MODULE Spec2Model ----------------------------
(***************************************************************************)
(* Dsys_Anal (src/src/Dsys_Anal.cpp): particle trajectories through a      *)
(* velocity field.  The object owns a time grid (dt, tmax, t_count, t), a  *)
(* particle store (parts[n].x, parts[n].y), two "ready" flags and the      *)
(* velocity field (u, v).  Every public method is one atomic action: the   *)
(* class is single-threaded and every call runs to completion.             *)
(*                                                                         *)
(* Numbers.  A double is modelled as an integer that a binary floating     *)
(* point format with a Precision-bit significand represents exactly, and   *)
(* every arithmetic operation rounds its exact result to that format       *)
(* (round to nearest, ties to even), as IEEE-754 arithmetic does with a    *)
(* 53-bit significand.  A coefficient of a vector is a cell: Dbl(v) when   *)
(* it holds the double v, Uninit when it was allocated and never written   *)
(* (its content is indeterminate).  C++ indices are 0-based; At and Put    *)
(* translate them to TLA+ sequences.                                       *)
(***************************************************************************)
EXTENDS Integers, Sequences, FiniteSets, TLC

VARIABLES
    dt,          \* double dt
    tmax,        \* double tmax
    t_count,     \* number of grid points
    t,           \* VectorXd t
    t_set,       \* bool t_set
    ic_set,      \* bool ic_set
    parts,       \* std::vector of particles, each [x |-> cells, y |-> cells]
    vel,         \* the velocity field u, v (a field of Fields, or "unset")
    crashed,     \* the process was killed by undefined behaviour
    call,        \* the last call: [op, arg, err, over]
    out,         \* what the last call wrote to stdout
    written,     \* the document the last call wrote to its file
    log,         \* the <<i, n>> steps of the last integration, in order
    oob,         \* the last integration indexed outside a buffer
    uninitRead,  \* the last integration read a never-written value
    ics,         \* the arguments of the last successful SetICs
    lastMarch    \* the integrator whose samples the buffers hold

vars == <<dt, tmax, t_count, t, t_set, ic_set, parts, vel, crashed, call,
          out, written, log, oob, uninitRead, ics, lastMarch>>

----------------------------------------------------------------------------
(* Bounds of the model *)

\* significand width of the modelled double (53 in the build)
Precision == 3
\* largest number of particles given to SetICs
MaxParts == 2

\* step sizes: powers of two, so that tmax / dt is exact
DtInputs == {2 ^ (Precision - 2), 2 ^ Precision}
\* end times, all representable; the largest is the one just below 2^Precision
TmaxInputs == {0, 2 ^ (Precision - 1), 2 ^ Precision - 1}
\* argument vectors of SetICs, of equal or of different lengths: the
\* coordinates alternate between 0 and 1, starting with either
ICVecs == {[n \in 1..k |-> (n + a) % 2] : k \in 0..MaxParts, a \in {0, 1}}
\* particle indices given to PrintTraj, valid or not
IndexInputs == -1..MaxParts
\* the velocity fields given to SetVel
Fields == {"uniform", "coupled"}
\* the paths given to ExportData, and those of them that can be opened
Paths == {"traj.json", "/nodir/traj.json"}
WritablePaths == {"traj.json"}

----------------------------------------------------------------------------
(* double arithmetic *)

Abs(a) == IF a < 0 THEN -a ELSE a

RECURSIVE BitLen(_)
BitLen(a) == IF a = 0 THEN 0 ELSE 1 + BitLen(a \div 2)

\* the double nearest to the exact result n: Precision significant bits,
\* ties to the even significand
Fl(n) ==
    LET a == Abs(n)
        e == BitLen(a) - Precision
    IN  IF e <= 0 THEN n
        ELSE LET q == 2 ^ e
                 m == a \div q
                 r == a % q
                 up == (2 * r > q) \/ (2 * r = q /\ m % 2 = 1)
                 res == (IF up THEN m + 1 ELSE m) * q
             IN  IF n < 0 THEN -res ELSE res

Uninit == << >>
Dbl(v) == <<v>>

AddD(a, b) == IF a = Uninit \/ b = Uninit THEN Uninit ELSE Dbl(Fl(a[1] + b[1]))
SubD(a, b) == IF a = Uninit \/ b = Uninit THEN Uninit ELSE Dbl(Fl(a[1] - b[1]))
MulD(a, b) == IF a = Uninit \/ b = Uninit THEN Uninit ELSE Dbl(Fl(a[1] * b[1]))
\* (3. / 2.) * a and (1. / 2.) * a; velocities are even, so a / 2 is exact
ThreeHalvesD(a) == IF a = Uninit THEN Uninit ELSE Dbl(Fl(3 * (a[1] \div 2)))
HalfD(a) == IF a = Uninit THEN Uninit ELSE Dbl(a[1] \div 2)

\* tmax / dt: exact, dt being a power of two; kept as a fraction
DivD(a, b) == [n |-> a, d |-> b]
\* q + 1, rounded to a double
AddOneD(q) == [n |-> Fl(q.n + q.d), d |-> q.d]
\* the conversion of a non-negative double to an integer
Trunc(q) == q.n \div q.d

\* coefficient access v(i), 0-based
At(v, i) == v[i + 1]
Put(v, i, c) == [v EXCEPT ![i + 1] = c]

----------------------------------------------------------------------------
(* the velocity fields: pure functions of (t, x, y) with even values *)

UField(f, tt, x, y) == IF f = "uniform" THEN 2 ELSE Fl(2 * (tt + y))
VField(f, tt, x, y) == IF f = "uniform" THEN 0 ELSE Fl(2 * x)

UCall(tt, x, y) ==
    IF x = Uninit \/ y = Uninit THEN Uninit ELSE Dbl(UField(vel, tt, x[1], y[1]))
VCall(tt, x, y) ==
    IF x = Uninit \/ y = Uninit THEN Uninit ELSE Dbl(VField(vel, tt, x[1], y[1]))

----------------------------------------------------------------------------
Init ==
    /\ dt = 0 /\ tmax = 0 /\ t_count = 0 /\ t = << >>
    /\ t_set = FALSE /\ ic_set = FALSE
    /\ parts = << >>
    /\ vel = "unset"
    /\ crashed = FALSE
    /\ call = [op |-> "new", arg |-> << >>, err |-> "none", over |-> "none"]
    /\ out = << >> /\ written = << >>
    /\ log = << >> /\ oob = FALSE /\ uninitRead = FALSE
    /\ ics = [x0 |-> << >>, y0 |-> << >>]
    /\ lastMarch = "none"

\* what a call that does not integrate, print or export leaves behind
NoOutput == out' = << >> /\ written' = << >>
NoMarch == log' = << >> /\ oob' = FALSE /\ uninitRead' = FALSE
Called(op, arg, err) ==
    call' = [op |-> op, arg |-> arg, err |-> err, over |-> "none"]


----------------------------------------------------------------------------
(* SetTime *)

\* t_count = (tmax / dt) + 1: double arithmetic, then the conversion
TCount(dt_in, tmax_in) == Trunc(AddOneD(DivD(tmax_in, dt_in)))

\* t.resize(t_count); t(i) = dt * i
TimeVec(dt_in, count) == [k \in 1..count |-> Fl(dt_in * (k - 1))]

\* Eigen's resize: a no-op at the same size, else a fresh allocation
Resize(v, size) == IF Len(v) = size THEN v ELSE [k \in 1..size |-> Uninit]

\* mutant of ConservativeResize: resize() called in its place
ResizeDiscarding(v, size) == [k \in 1..size |-> Uninit]

\* Eigen's conservativeResize: the leading coefficients are kept
ConservativeResize(v, size) ==
    [k \in 1..size |-> IF k <= Len(v) THEN v[k] ELSE Uninit]

\* mutant of ResizeParts: the slot past the last grid time is forgotten
ResizePartsNoSlot(ps, count) ==
    [n \in DOMAIN ps |-> [x |-> ConservativeResize(ps[n].x, count),
                          y |-> ConservativeResize(ps[n].y, count)]]

ResizeParts(ps, count) ==
    [n \in DOMAIN ps |-> [x |-> ConservativeResize(ps[n].x, count + 1),
                          y |-> ConservativeResize(ps[n].y, count + 1)]]

SetTime ==
    /\ ~crashed
    /\ \E dt_in \in DtInputs, tmax_in \in TmaxInputs :
          LET count == TCount(dt_in, tmax_in)
          IN  /\ dt' = dt_in
              /\ tmax' = tmax_in
              /\ t_count' = count
              /\ t' = TimeVec(dt_in, count)
              /\ t_set' = TRUE
              /\ parts' = IF ic_set THEN ResizeParts(parts, count) ELSE parts
    /\ Called("SetTime", << >>, "none")
    /\ NoOutput /\ NoMarch
    /\ UNCHANGED <<ic_set, vel, crashed, ics, lastMarch>>

----------------------------------------------------------------------------
(* SetICs *)

\* mutant of Mismatched: the lengths are not compared
NeverMismatched(x0, y0) == FALSE

\* x0.size() != y0.size()
Mismatched(x0, y0) == Len(x0) # Len(y0)

\* parts.resize(x0.size()) keeps the leading particles and appends empty
\* ones; then each buffer is resized to 1 and given its initial condition
\* (a coefficient of y0 past its end is an out-of-bounds read)
InitParts(ps, x0, y0) ==
    [n \in 1..Len(x0) |->
        LET old == IF n <= Len(ps) THEN ps[n] ELSE [x |-> << >>, y |-> << >>]
        IN  [x |-> Put(Resize(old.x, 1), 0, Dbl(x0[n])),
             y |-> Put(Resize(old.y, 1), 0,
                       IF n <= Len(y0) THEN Dbl(y0[n]) ELSE Uninit)]]

SetICs ==
    /\ ~crashed
    /\ \E x0 \in ICVecs, y0 \in ICVecs :
          IF Mismatched(x0, y0)
          THEN /\ Called("SetICs", <<Len(x0), Len(y0)>>, "InvalidArgument")
               /\ UNCHANGED <<parts, ic_set, ics, lastMarch>>
          ELSE /\ parts' = IF t_set
                           THEN ResizeParts(InitParts(parts, x0, y0), t_count)
                           ELSE InitParts(parts, x0, y0)
               /\ ic_set' = TRUE
               /\ ics' = [x0 |-> x0, y0 |-> y0]
               /\ lastMarch' = "none"
               /\ Called("SetICs", <<Len(x0), Len(y0)>>, "none")
    /\ NoOutput /\ NoMarch
    /\ UNCHANGED <<dt, tmax, t_count, t, t_set, vel, crashed>>

----------------------------------------------------------------------------
(* SetVel *)

SetVel ==
    /\ ~crashed
    /\ \E f \in Fields : vel' = f
    /\ Called("SetVel", << >>, "none")
    /\ NoOutput /\ NoMarch
    /\ UNCHANGED <<dt, tmax, t_count, t, t_set, ic_set, parts, crashed, ics,
                   lastMarch>>

----------------------------------------------------------------------------
(* MarchEE and MarchAB *)

\* v(i) read and written by an integrator: an index past the end is an
\* out-of-bounds access (recorded in oob by the step that makes it)
Read(v, i) == IF i < Len(v) THEN At(v, i) ELSE Uninit
Write(v, i, c) == IF i < Len(v) THEN Put(v, i, c) ELSE v

\* the locals of an integrator at its entry: u_nm1 and v_nm1 are allocated
\* with one coefficient per particle and not initialised
MarchEntry ==
    [parts |-> parts, log |-> << >>, oob |-> FALSE, uninit |-> FALSE,
     u_nm1 |-> [n \in DOMAIN parts |-> Uninit],
     v_nm1 |-> [n \in DOMAIN parts |-> Uninit]]

\* mutant of EEStep: v is evaluated after x has been advanced
EEStepStale(st, i, n) ==
    LET p == st.parts[n + 1]
        xi == Read(p.x, i)
        yi == Read(p.y, i)
        u_n == UCall(At(t, i), xi, yi)
        nx == AddD(xi, MulD(Dbl(dt), u_n))
        v_n == VCall(At(t, i), nx, yi)
    IN  [st EXCEPT
            !.parts[n + 1] =
                [x |-> Write(p.x, i + 1, nx),
                 y |-> Write(p.y, i + 1, AddD(yi, MulD(Dbl(dt), v_n)))],
            !.log = Append(@, <<i, n>>),
            !.oob = @ \/ i + 1 >= Len(p.x) \/ i + 1 >= Len(p.y),
            !.uninit = @ \/ xi = Uninit \/ yi = Uninit]

\* mutant of EEStep: the increment is added to what the slot already holds
EEStepAccumulate(st, i, n) ==
    LET p == st.parts[n + 1]
        xi == Read(p.x, i)
        yi == Read(p.y, i)
        u_n == UCall(At(t, i), xi, yi)
        v_n == VCall(At(t, i), xi, yi)
        xo == Read(p.x, i + 1)
        yo == Read(p.y, i + 1)
    IN  [st EXCEPT
            !.parts[n + 1] =
                [x |-> Write(p.x, i + 1,
                             IF xo = Uninit THEN AddD(xi, MulD(Dbl(dt), u_n))
                             ELSE AddD(xo, MulD(Dbl(dt), u_n))),
                 y |-> Write(p.y, i + 1,
                             IF yo = Uninit THEN AddD(yi, MulD(Dbl(dt), v_n))
                             ELSE AddD(yo, MulD(Dbl(dt), v_n)))],
            !.log = Append(@, <<i, n>>),
            !.oob = @ \/ i + 1 >= Len(p.x) \/ i + 1 >= Len(p.y),
            !.uninit = @ \/ xi = Uninit \/ yi = Uninit]

\* the body of MarchEE's inner loop, for time index i and particle n
EEStep(st, i, n) ==
    LET p == st.parts[n + 1]
        xi == Read(p.x, i)
        yi == Read(p.y, i)
        u_n == UCall(At(t, i), xi, yi)
        v_n == VCall(At(t, i), xi, yi)
    IN  [st EXCEPT
            !.parts[n + 1] =
                [x |-> Write(p.x, i + 1, AddD(xi, MulD(Dbl(dt), u_n))),
                 y |-> Write(p.y, i + 1, AddD(yi, MulD(Dbl(dt), v_n)))],
            !.log = Append(@, <<i, n>>),
            !.oob = @ \/ i + 1 >= Len(p.x) \/ i + 1 >= Len(p.y),
            !.uninit = @ \/ xi = Uninit \/ yi = Uninit]

RECURSIVE EEParticles(_, _, _)
EEParticles(st, i, n) ==
    IF n = Len(st.parts) THEN st ELSE EEParticles(EEStep(st, i, n), i, n + 1)

RECURSIVE EETime(_, _)
EETime(st, i) ==
    IF i = t_count THEN st ELSE EETime(EEParticles(st, i, 0), i + 1)

\* mutant of ABStep: the previous velocity is read from the next particle's
\* slot of the cache
ABStepNeighbour(st, i, n) ==
    LET p == st.parts[n + 1]
        xi == Read(p.x, i)
        yi == Read(p.y, i)
        u_n == UCall(At(t, i), xi, yi)
        v_n == VCall(At(t, i), xi, yi)
        m == ((n + 1) % Len(st.parts)) + 1
        u_old == st.u_nm1[m]
        v_old == st.v_nm1[m]
        dx == IF i = 0 THEN MulD(Dbl(dt), u_n)
              ELSE MulD(Dbl(dt), SubD(ThreeHalvesD(u_n), HalfD(u_old)))
        dy == IF i = 0 THEN MulD(Dbl(dt), v_n)
              ELSE MulD(Dbl(dt), SubD(ThreeHalvesD(v_n), HalfD(v_old)))
    IN  [st EXCEPT
            !.parts[n + 1] = [x |-> Write(p.x, i + 1, AddD(xi, dx)),
                              y |-> Write(p.y, i + 1, AddD(yi, dy))],
            !.u_nm1[n + 1] = u_n,
            !.v_nm1[n + 1] = v_n,
            !.log = Append(@, <<i, n>>),
            !.oob = @ \/ i + 1 >= Len(p.x) \/ i + 1 >= Len(p.y),
            !.uninit = @ \/ xi = Uninit \/ yi = Uninit
                         \/ (i # 0 /\ (u_old = Uninit \/ v_old = Uninit))]

\* mutant of ABStep: the new sample is stored at index i
ABStepInPlace(st, i, n) ==
    LET p == st.parts[n + 1]
        xi == Read(p.x, i)
        yi == Read(p.y, i)
        u_n == UCall(At(t, i), xi, yi)
        v_n == VCall(At(t, i), xi, yi)
        u_old == st.u_nm1[n + 1]
        v_old == st.v_nm1[n + 1]
        dx == IF i = 0 THEN MulD(Dbl(dt), u_n)
              ELSE MulD(Dbl(dt), SubD(ThreeHalvesD(u_n), HalfD(u_old)))
        dy == IF i = 0 THEN MulD(Dbl(dt), v_n)
              ELSE MulD(Dbl(dt), SubD(ThreeHalvesD(v_n), HalfD(v_old)))
    IN  [st EXCEPT
            !.parts[n + 1] = [x |-> Write(p.x, i, AddD(xi, dx)),
                              y |-> Write(p.y, i, AddD(yi, dy))],
            !.u_nm1[n + 1] = u_n,
            !.v_nm1[n + 1] = v_n,
            !.log = Append(@, <<i, n>>),
            !.oob = @,
            !.uninit = @ \/ xi = Uninit \/ yi = Uninit
                         \/ (i # 0 /\ (u_old = Uninit \/ v_old = Uninit))]

\* the body of MarchAB's inner loop
ABStep(st, i, n) ==
    LET p == st.parts[n + 1]
        xi == Read(p.x, i)
        yi == Read(p.y, i)
        u_n == UCall(At(t, i), xi, yi)
        v_n == VCall(At(t, i), xi, yi)
        u_old == st.u_nm1[n + 1]
        v_old == st.v_nm1[n + 1]
        dx == IF i = 0 THEN MulD(Dbl(dt), u_n)
              ELSE MulD(Dbl(dt), SubD(ThreeHalvesD(u_n), HalfD(u_old)))
        dy == IF i = 0 THEN MulD(Dbl(dt), v_n)
              ELSE MulD(Dbl(dt), SubD(ThreeHalvesD(v_n), HalfD(v_old)))
    IN  [st EXCEPT
            !.parts[n + 1] = [x |-> Write(p.x, i + 1, AddD(xi, dx)),
                              y |-> Write(p.y, i + 1, AddD(yi, dy))],
            !.u_nm1[n + 1] = u_n,
            !.v_nm1[n + 1] = v_n,
            !.log = Append(@, <<i, n>>),
            !.oob = @ \/ i + 1 >= Len(p.x) \/ i + 1 >= Len(p.y),
            !.uninit = @ \/ xi = Uninit \/ yi = Uninit
                         \/ (i # 0 /\ (u_old = Uninit \/ v_old = Uninit))]

RECURSIVE ABParticles(_, _, _)
ABParticles(st, i, n) ==
    IF n = Len(st.parts) THEN st ELSE ABParticles(ABStep(st, i, n), i, n + 1)

RECURSIVE ABTime(_, _)
ABTime(st, i) ==
    IF i = t_count THEN st ELSE ABTime(ABParticles(st, i, 0), i + 1)

\* an integrator returns: the store and what the call did
Marched(op, st) ==
    /\ parts' = st.parts
    /\ log' = st.log
    /\ oob' = st.oob
    /\ uninitRead' = st.uninit
    /\ call' = [op |-> op, arg |-> << >>, err |-> "none", over |-> lastMarch]
    /\ lastMarch' = IF st.log = << >> THEN lastMarch ELSE op
    /\ NoOutput
    /\ UNCHANGED <<dt, tmax, t_count, t, t_set, ic_set, vel, crashed, ics>>

\* t_count is assigned by SetTime alone and u, v by SetVel alone: the
\* integrators are called once both have run
MarchEE ==
    /\ ~crashed /\ t_set /\ vel \in Fields
    /\ Marched("MarchEE", EETime(MarchEntry, 0))

MarchAB ==
    /\ ~crashed /\ t_set /\ vel \in Fields
    /\ Marched("MarchAB", ABTime(MarchEntry, 0))

----------------------------------------------------------------------------
(* PrintTraj and ExportData *)

Header == <<"t", "x", "y">>

\* one printf per time index
Rows(n) == [k \in 1..t_count |-> <<t[k], parts[n + 1].x[k], parts[n + 1].y[k]>>]

\* parts[n] with n outside the vector is undefined behaviour: the rows hold
\* whatever the stray read finds
StrayRows == [k \in 1..t_count |-> <<t[k], Uninit, Uninit>>]

PrintTraj ==
    /\ ~crashed /\ t_set
    /\ \E n \in IndexInputs :
          /\ Called("PrintTraj", n, "none")
          /\ IF 0 <= n /\ n < Len(parts)
             THEN /\ out' = <<Header>> \o Rows(n)
                  /\ crashed' = FALSE
             ELSE \/ /\ out' = <<Header>> \o StrayRows
                     /\ crashed' = FALSE
                  \/ /\ out' = <<Header>>
                     /\ crashed' = TRUE
                  \/ /\ out' = << >>
                     /\ crashed' = TRUE
    /\ written' = << >>
    /\ NoMarch
    /\ UNCHANGED <<dt, tmax, t_count, t, t_set, ic_set, parts, vel, ics,
                   lastMarch>>

\* the json document: "t", then "parts" in store order
Document ==
    [t |-> t, parts |-> [n \in DOMAIN parts |-> [x |-> parts[n].x, y |-> parts[n].y]]]

\* an ofstream that failed to open ignores what is written to it; nothing
\* tests it and nothing is thrown
ExportData ==
    /\ ~crashed
    /\ \E path \in Paths :
          /\ Called("ExportData", path, "none")
          /\ written' = IF path \in WritablePaths THEN <<Document>> ELSE << >>
    /\ out' = << >>
    /\ NoMarch
    /\ UNCHANGED <<dt, tmax, t_count, t, t_set, ic_set, parts, vel, crashed,
                   ics, lastMarch>>

----------------------------------------------------------------------------
Next ==
    \/ SetTime
    \/ SetICs
    \/ SetVel
    \/ MarchEE
    \/ MarchAB
    \/ PrintTraj
    \/ ExportData

Spec == Init /\ [][Next]_vars

----------------------------------------------------------------------------
(* Properties *)

Configured == t_set /\ ic_set
Min(a, b) == IF a < b THEN a ELSE b
ValidIndex(n) == 0 <= n /\ n < Len(parts)

\* C1: a SetICs call whose x0 and y0 differ in length fails with
\* InvalidArgument and changes nothing: the particles and their buffers, the
\* ic-ready flag and the time grid are after the call what they were before
C1_MismatchChangesNothing ==
    [][(call'.op = "SetICs" /\ call'.arg[1] # call'.arg[2]) =>
          /\ call'.err = "InvalidArgument"
          /\ parts' = parts
          /\ ic_set' = ic_set
          /\ <<dt, tmax, t_count, t, t_set>>' = <<dt, tmax, t_count, t, t_set>>
      ]_vars

\* a mismatched SetICs has failed on a configured, integrated store
C1_Witness ==
    /\ call.op = "SetICs" /\ call.err = "InvalidArgument"
    /\ Configured /\ Len(parts) >= 2 /\ lastMarch # "none"

\* C2: PrintTraj(n) with n no valid particle index fails with OutOfRange and
\* writes nothing, not even the header line
C2_BadIndexThrowsAndPrintsNothing ==
    (call.op = "PrintTraj" /\ ~ValidIndex(call.arg)) =>
        (call.err = "OutOfRange" /\ out = << >>)

\* C3: ExportData(path) fails with IOError whenever path cannot be opened
\* for writing
C3_UnwritablePathThrows ==
    (call.op = "ExportData" /\ call.arg \notin WritablePaths) =>
        call.err = "IOError"

\* C4: once SetTime and SetICs have each succeeded, every buffer has one
\* slot more than the grid has points; while only SetICs has, every buffer
\* has length 1
C4_BufferLengths ==
    /\ Configured =>
          \A n \in DOMAIN parts :
              Len(parts[n].x) = Len(t) + 1 /\ Len(parts[n].y) = Len(t) + 1
    /\ (ic_set /\ ~t_set) =>
          \A n \in DOMAIN parts : Len(parts[n].x) = 1 /\ Len(parts[n].y) = 1

\* SetICs was the call that completed the configuration of a longer grid
C4_Witness ==
    /\ call.op = "SetICs" /\ call.err = "none"
    /\ Configured /\ Len(parts) >= 2 /\ t_count >= 3

\* C5: SetTime on a store that has particles resizes every buffer to the new
\* t_count + 1, keeps the samples below min(old, new) capacity, and keeps
\* the particles and their order
C5_SetTimeKeepsLeadingSamples ==
    [][(call'.op = "SetTime" /\ ic_set) =>
          /\ Len(parts') = Len(parts)
          /\ \A n \in DOMAIN parts :
                /\ Len(parts'[n].x) = t_count' + 1
                /\ Len(parts'[n].y) = t_count' + 1
                /\ \A k \in 1..Min(Len(parts[n].x), t_count' + 1) :
                      parts'[n].x[k] = parts[n].x[k]
                /\ \A k \in 1..Min(Len(parts[n].y), t_count' + 1) :
                      parts'[n].y[k] = parts[n].y[k]
      ]_vars

\* SetTime has grown the buffers of an integrated store: computed samples
\* are followed by fresh slots
C5_Witness ==
    /\ call.op = "SetTime" /\ ic_set /\ lastMarch # "none"
    /\ Len(parts) >= 2
    /\ At(parts[1].x, 1) # Uninit
    /\ At(parts[1].x, t_count) = Uninit

\* C6: after SetTime(dt, tmax) the grid has floor(tmax / dt) + 1 points,
\* times[i] = i * dt from 0, strictly increasing; tmax < dt gives one point
C6_GridHasFloorPlusOnePoints ==
    t_set =>
        /\ Len(t) = (tmax \div dt) + 1
        /\ \A k \in DOMAIN t : t[k] = Fl((k - 1) * dt)
        /\ \A k \in 1..(Len(t) - 1) : t[k] < t[k + 1]
        /\ tmax < dt => Len(t) = 1

\* the time-major order of the steps of one integration
TimeMajor(count, np) ==
    [k \in 1..(count * np) |-> <<(k - 1) \div np, (k - 1) % np>>]

\* C7: after MarchEE on a configured store every sample i + 1 is the Euler
\* step from sample i, the steps were taken time index by time index, and
\* no index left the buffers
C7_EulerRecurrence ==
    (call.op = "MarchEE" /\ Configured) =>
        /\ \A n \in DOMAIN parts : \A i \in 0..(t_count - 1) :
              LET x == parts[n].x
                  y == parts[n].y
              IN  /\ At(x, i + 1) # Uninit /\ At(y, i + 1) # Uninit
                  /\ At(x, i + 1) =
                        AddD(At(x, i), MulD(Dbl(dt), UCall(At(t, i), At(x, i), At(y, i))))
                  /\ At(y, i + 1) =
                        AddD(At(y, i), MulD(Dbl(dt), VCall(At(t, i), At(x, i), At(y, i))))
        /\ log = TimeMajor(t_count, Len(parts))
        /\ ~oob /\ ~uninitRead

\* MarchEE has run over several steps and particles of the coupled field
C7_Witness ==
    /\ call.op = "MarchEE" /\ Configured
    /\ Len(parts) >= 2 /\ t_count >= 3 /\ vel = "coupled"

\* C8: after MarchAB on a configured store sample 1 is the Euler step from
\* sample 0, every later sample i + 1 is the Adams-Bashforth step from
\* sample i with the same particle's velocity at step i - 1, and the cache
\* was never read before it was written
C8_AdamsBashforthRecurrence ==
    (call.op = "MarchAB" /\ Configured) =>
        /\ \A n \in DOMAIN parts : \A i \in 0..(t_count - 1) :
              LET x == parts[n].x
                  y == parts[n].y
                  u_n == UCall(At(t, i), At(x, i), At(y, i))
                  v_n == VCall(At(t, i), At(x, i), At(y, i))
              IN  /\ At(x, i + 1) # Uninit /\ At(y, i + 1) # Uninit
                  /\ i = 0 =>
                        /\ At(x, 1) = AddD(At(x, 0), MulD(Dbl(dt), u_n))
                        /\ At(y, 1) = AddD(At(y, 0), MulD(Dbl(dt), v_n))
                  /\ i >= 1 =>
                        LET u_p == UCall(At(t, i - 1), At(x, i - 1), At(y, i - 1))
                            v_p == VCall(At(t, i - 1), At(x, i - 1), At(y, i - 1))
                        IN  /\ At(x, i + 1) =
                                  AddD(At(x, i), MulD(Dbl(dt),
                                       SubD(ThreeHalvesD(u_n), HalfD(u_p))))
                            /\ At(y, i + 1) =
                                  AddD(At(y, i), MulD(Dbl(dt),
                                       SubD(ThreeHalvesD(v_n), HalfD(v_p))))
        /\ log = TimeMajor(t_count, Len(parts))
        /\ ~oob /\ ~uninitRead

\* MarchAB has run over several steps and particles of the coupled field
C8_Witness ==
    /\ call.op = "MarchAB" /\ Configured
    /\ Len(parts) >= 2 /\ t_count >= 3 /\ vel = "coupled"

\* C9: sample 0 of every particle is the initial condition given for its
\* index by the last successful SetICs, whatever was called since
C9_InitialSampleKept ==
    ic_set =>
        /\ Len(parts) = Len(ics.x0)
        /\ \A n \in DOMAIN parts :
              /\ At(parts[n].x, 0) = Dbl(ics.x0[n])
              /\ At(parts[n].y, 0) = Dbl(ics.y0[n])

\* an integrated store whose grid was then reconfigured has been exported
C9_Witness ==
    /\ call.op = "ExportData" /\ Configured
    /\ lastMarch = "MarchAB" /\ Len(parts) >= 2
    /\ At(parts[1].x, t_count) = Uninit

\* the store as SetTime and SetICs leave it, never integrated
FreshEntry ==
    [MarchEntry EXCEPT
        !.parts = ResizeParts(InitParts(<< >>, ics.x0, ics.y0), t_count)]

\* C10: an integrator called after any earlier integrations leaves the
\* buffers as one call of it leaves the freshly configured store
C10_ReintegrationIsFresh ==
    /\ (call.op = "MarchEE" /\ Configured) => parts = EETime(FreshEntry, 0).parts
    /\ (call.op = "MarchAB" /\ Configured) => parts = ABTime(FreshEntry, 0).parts

\* MarchEE has run over the samples MarchAB left
C10_Witness ==
    /\ call.op = "MarchEE" /\ call.over = "MarchAB" /\ Configured
    /\ Len(parts) >= 2 /\ t_count >= 3 /\ vel = "coupled"

=============================================================================
